---- MODULE Spec2Model ----
(***************************************************************************)
(* Model of fizzy-mcp (src/src/index.ts): the CallTool dispatch handler,   *)
(* validateToolArgs, and the FizzyClient request/response normalisation.   *)
(*                                                                         *)
(* Representation.  A JavaScript string whose characters the code looks    *)
(* at (identifiers, URL paths, the Location header) is a sequence of       *)
(* one-character strings.  Tool names, field names and HTTP methods are    *)
(* only compared for equality and are TLA+ strings.  A JavaScript value is *)
(* a record tagged with t (see Undefined .. Obj).  A text that is the JSON *)
(* serialisation of a value v is Json(v); any other text is Raw(s).        *)
(***************************************************************************)
EXTENDS Integers, Sequences, FiniteSets, TLC

VARIABLES baseUrl, token, accountId, pc, name, args, sent, resp, out

vars == <<baseUrl, token, accountId, pc, name, args, sent, resp, out>>

config == <<baseUrl, token, accountId>>

(***************************************************************************)
(* Bounds                                                                  *)
(***************************************************************************)
\* number of call slots the transport may use
NumCalls == 2

CallIds == 1..NumCalls

(***************************************************************************)
(* Characters and string literals                                          *)
(***************************************************************************)
Digits == {"0", "1", "2", "3", "4", "5", "6", "7", "8", "9"}

Lower == {"a", "b", "c", "d", "e", "f", "g", "h", "i", "j", "k", "l", "m",
          "n", "o", "p", "q", "r", "s", "t", "u", "v", "w", "x", "y", "z"}

Upper == {"A", "B", "C", "D", "E", "F", "G", "H", "I", "J", "K", "L", "M",
          "N", "O", "P", "Q", "R", "S", "T", "U", "V", "W", "X", "Y", "Z"}

\* the character class [a-zA-Z0-9] of idPattern
idPattern == Lower \cup Upper \cup Digits

L_slash == <<"/">>

L_boards == <<"/", "b", "o", "a", "r", "d", "s">>

L_cards == <<"/", "c", "a", "r", "d", "s">>

L_column == <<"/", "c", "o", "l", "u", "m", "n">>

L_columns == <<"/", "c", "o", "l", "u", "m", "n", "s">>

L_closure == <<"/", "c", "l", "o", "s", "u", "r", "e">>

L_not_now == <<"/", "n", "o", "t", "_", "n", "o", "w">>

L_comments == <<"/", "c", "o", "m", "m", "e", "n", "t", "s">>

L_taggings == <<"/", "t", "a", "g", "g", "i", "n", "g", "s">>

S_done == <<"d", "o", "n", "e">>

S_not_now == <<"n", "o", "t", "_", "n", "o", "w">>

(***************************************************************************)
(* JavaScript values                                                       *)
(***************************************************************************)
Undefined == [t |-> "undefined"]

Null == [t |-> "null"]

Str(cs) == [t |-> "string", s |-> cs]

Num(n) == [t |-> "number", n |-> n]

Bool(b) == [t |-> "boolean", b |-> b]

Arr(items) == [t |-> "array", items |-> items]

Obj(f) == [t |-> "object", f |-> f]

EmptyFields == [k \in {} |-> Undefined]

\* the typeof operator
TypeOf(v) ==
  CASE v.t = "undefined" -> "undefined"
    [] v.t = "null" -> "object"
    [] v.t = "string" -> "string"
    [] v.t = "number" -> "number"
    [] v.t = "boolean" -> "boolean"
    [] v.t = "array" -> "object"
    [] v.t = "object" -> "object"

\* ToBoolean, as used by `!x` and `if (x)`
Truthy(v) ==
  CASE v.t = "undefined" -> FALSE
    [] v.t = "null" -> FALSE
    [] v.t = "string" -> v.s # <<>>
    [] v.t = "number" -> v.n # 0
    [] v.t = "boolean" -> v.b
    [] v.t = "array" -> TRUE
    [] v.t = "object" -> TRUE

\* property read o[field]; an array or a primitive has no such property
Get(o, field) ==
  IF o.t = "object" /\ field \in DOMAIN o.f THEN o.f[field] ELSE Undefined

\* texts: the JSON serialisation of a value, or any other text
Json(v) == [json |-> v]

Raw(s) == [raw |-> s]

IsJson(text) == "json" \in DOMAIN text

\* JSON.stringify of an object literal: a key whose value is undefined is
\* left out, at every level
RECURSIVE DropUndefined(_)
DropUndefined(v) ==
  IF v.t = "object"
  THEN Obj([k \in {j \in DOMAIN v.f : v.f[j].t # "undefined"} |->
              DropUndefined(v.f[k])])
  ELSE v

JSONstringify(v) == Json(DropUndefined(v))

(***************************************************************************)
(* Outcomes of a computation that may throw                                *)
(***************************************************************************)
Throw(e) == [thrown |-> TRUE, err |-> e]

Return(v) == [thrown |-> FALSE, val |-> v]

(***************************************************************************)
(* validateToolArgs (index.ts 48-87)                                       *)
(***************************************************************************)
\* a schema is the sequence of its entries, in Object.entries order
Field(field, type) == [field |-> field, type |-> type]

\* expectedType.endsWith('?')
IsOptional(expectedType) == expectedType = "string?"

\* the '?' is not sliced off
BaseType_unsliced(expectedType) == expectedType

\* isOptional ? expectedType.slice(0, -1) : expectedType
BaseType(expectedType) ==
  IF IsOptional(expectedType) THEN "string" ELSE expectedType

\* only undefined counts as absent
IsAbsent_undefinedOnly(value) == value.t = "undefined"

\* value === undefined || value === null
IsAbsent(value) == value.t \in {"undefined", "null"}

\* the entries the loop pushes to `missing`, in schema order
MissingFields(rawArgs, schema) ==
  LET isMissing(e) == IsAbsent(Get(rawArgs, e.field)) /\ ~IsOptional(e.type)
      es == SelectSeq(schema, isMissing)
  IN  [i \in 1..Len(es) |-> es[i].field]

\* the entries the loop pushes to `wrongType`, in schema order
WrongTypeFields(rawArgs, schema) ==
  LET isWrong(e) == /\ ~IsAbsent(Get(rawArgs, e.field))
                    /\ TypeOf(Get(rawArgs, e.field)) # BaseType(e.type)
      es == SelectSeq(schema, isWrong)
  IN  [i \in 1..Len(es) |->
         [field |-> es[i].field,
          expected |-> BaseType(es[i].type),
          got |-> TypeOf(Get(rawArgs, es[i].field))]]

\* the object the loop builds in `validated`
\* every field of the raw bag is copied
ValidatedBag_copyAll(rawArgs, schema) ==
  IF rawArgs.t = "object" THEN rawArgs ELSE Obj(EmptyFields)

ValidatedBag(rawArgs, schema) ==
  LET ok(e) == /\ ~IsAbsent(Get(rawArgs, e.field))
               /\ TypeOf(Get(rawArgs, e.field)) = BaseType(e.type)
      keep == {schema[i].field : i \in {j \in 1..Len(schema) : ok(schema[j])}}
  IN  Obj([k \in keep |-> Get(rawArgs, k)])

\* fails at the first violation instead of collecting all of them
validateToolArgs_firstOnly(rawArgs, schema, toolName) ==
  IF ~Truthy(rawArgs) \/ TypeOf(rawArgs) # "object"
  THEN Throw([kind |-> "RequiresArguments", tool |-> toolName])
  ELSE LET missing == MissingFields(rawArgs, schema)
           wrongType == WrongTypeFields(rawArgs, schema)
       IN  IF Len(missing) > 0
           THEN Throw([kind |-> "ValidationFailed", tool |-> toolName,
                       missing |-> <<missing[1]>>, wrongType |-> <<>>])
           ELSE IF Len(wrongType) > 0
                THEN Throw([kind |-> "ValidationFailed", tool |-> toolName,
                            missing |-> <<>>, wrongType |-> <<wrongType[1]>>])
                ELSE Return(ValidatedBag(rawArgs, schema))

validateToolArgs(rawArgs, schema, toolName) ==
  IF ~Truthy(rawArgs) \/ TypeOf(rawArgs) # "object"
  THEN Throw([kind |-> "RequiresArguments", tool |-> toolName])
  ELSE LET missing == MissingFields(rawArgs, schema)
           wrongType == WrongTypeFields(rawArgs, schema)
       IN  IF Len(missing) > 0 \/ Len(wrongType) > 0
           THEN Throw([kind |-> "ValidationFailed", tool |-> toolName,
                       missing |-> missing, wrongType |-> wrongType])
           ELSE Return(ValidatedBag(rawArgs, schema))

(***************************************************************************)
(* FizzyClient (index.ts 90-276)                                           *)
(***************************************************************************)
\* idPattern.test(id): /^[a-zA-Z0-9]+$/
PatternTest(cs) == Len(cs) > 0 /\ \A i \in 1..Len(cs) : cs[i] \in idPattern

\* validateId without the pattern test
validateId_nonEmptyOnly(id, paramName) ==
  IF ~Truthy(id) \/ TypeOf(id) # "string"
  THEN Throw([kind |-> "InvalidIdEmpty", param |-> paramName])
  ELSE Return(Undefined)

validateId(id, paramName) ==
  IF ~Truthy(id) \/ TypeOf(id) # "string"
  THEN Throw([kind |-> "InvalidIdEmpty", param |-> paramName])
  ELSE IF ~PatternTest(id.s)
       THEN Throw([kind |-> "InvalidIdChars", param |-> paramName, id |-> id.s])
       ELSE Return(Undefined)

NoBody == [absent |-> TRUE]

\* request(), up to and including the call of fetch: the request handed to
\* the network
Fetch(path, method, body) ==
  Return([url |-> baseUrl \o L_slash \o accountId \o path,
          path |-> path,
          method |-> method,
          headers |-> IF token # <<>>
                      THEN [Accept |-> "application/json",
                            ContentType |-> "application/json",
                            Authorization |-> <<"Bearer ">> \o token]
                      ELSE [Accept |-> "application/json",
                            ContentType |-> "application/json"],
          body |-> body])

\* run `first` (a validateId); when it throws, the method throws
AndThen(first, rest) == IF first.thrown THEN first ELSE rest

listBoards == Fetch(L_boards, "GET", NoBody)

getBoard(boardId) ==
  AndThen(validateId(boardId, "boardId"),
          Fetch(L_boards \o L_slash \o boardId.s, "GET", NoBody))

createBoard(boardName, description) ==
  Fetch(L_boards, "POST",
        JSONstringify(Obj([board |->
          Obj([name |-> boardName, description |-> description])])))

listCardsRequest == Fetch(L_cards, "GET", NoBody)

getCard(cardId) ==
  AndThen(validateId(cardId, "cardId"),
          Fetch(L_cards \o L_slash \o cardId.s, "GET", NoBody))

\* the card is posted to the global collection
createCard_flat(boardId, title, description) ==
  AndThen(validateId(boardId, "boardId"),
          Fetch(L_cards, "POST",
                JSONstringify(Obj([card |->
                  Obj([title |-> title, description |-> description])]))))

createCard(boardId, title, description) ==
  AndThen(validateId(boardId, "boardId"),
          Fetch(L_boards \o L_slash \o boardId.s \o L_cards, "POST",
                JSONstringify(Obj([card |->
                  Obj([title |-> title, description |-> description])]))))

updateCard(cardId, updates) ==
  AndThen(validateId(cardId, "cardId"),
          Fetch(L_cards \o L_slash \o cardId.s, "PATCH",
                JSONstringify(Obj([card |-> updates]))))

moveCardToColumn(cardId, columnId) ==
  AndThen(validateId(cardId, "cardId"),
  AndThen(validateId(columnId, "columnId"),
          Fetch(L_cards \o L_slash \o cardId.s \o L_column, "PATCH",
                JSONstringify(Obj([column_id |-> columnId])))))

\* "done" sent to the column endpoint like any column id
moveCardToDone_asColumn(cardId) == moveCardToColumn(cardId, Str(S_done))

moveCardToDone(cardId) ==
  AndThen(validateId(cardId, "cardId"),
          Fetch(L_cards \o L_slash \o cardId.s \o L_closure, "POST", NoBody))

moveCardToNotNow(cardId) ==
  AndThen(validateId(cardId, "cardId"),
          Fetch(L_cards \o L_slash \o cardId.s \o L_not_now, "POST", NoBody))

listColumns(boardId) ==
  AndThen(validateId(boardId, "boardId"),
          Fetch(L_boards \o L_slash \o boardId.s \o L_columns, "GET", NoBody))

listComments(cardId) ==
  AndThen(validateId(cardId, "cardId"),
          Fetch(L_cards \o L_slash \o cardId.s \o L_comments, "GET", NoBody))

addComment(cardId, body) ==
  AndThen(validateId(cardId, "cardId"),
          Fetch(L_cards \o L_slash \o cardId.s \o L_comments, "POST",
                JSONstringify(Obj([comment |-> Obj([body |-> body])]))))

addTag(cardId, tagTitle) ==
  AndThen(validateId(cardId, "cardId"),
          Fetch(L_cards \o L_slash \o cardId.s \o L_taggings, "POST",
                JSONstringify(Obj([tag_title |-> tagTitle]))))

\* removal sent as a DELETE of the tagging
removeTag_delete(cardId, tagTitle) ==
  AndThen(validateId(cardId, "cardId"),
          Fetch(L_cards \o L_slash \o cardId.s \o L_taggings, "DELETE",
                JSONstringify(Obj([tag_title |-> tagTitle]))))

removeTag(cardId, tagTitle) ==
  AndThen(validateId(cardId, "cardId"),
          Fetch(L_cards \o L_slash \o cardId.s \o L_taggings, "POST",
                JSONstringify(Obj([tag_title |-> tagTitle]))))

(***************************************************************************)
(* request(): normalisation of the response (index.ts 128-158)             *)
(***************************************************************************)
\* a response is [rejected |-> TRUE] (the fetch promise rejects) or
\* [status, location, body]: location is headers.get("Location") (Null when
\* the header is absent), body is the text response.text() gives, or
\* Unreadable when reading the body fails
Rejected == [rejected |-> TRUE]

Unreadable == [unreadable |-> TRUE]

IsRejected(r) == "rejected" \in DOMAIN r

\* only 4xx and 5xx are taken as failures
Ok_below400(r) == r.status \in 200..399

\* response.ok
Ok(r) == r.status \in 200..299

\* await response.text()
ReadText(r) ==
  IF r.body = Unreadable THEN Throw([kind |-> "BodyReadFailed"])
  ELSE Return(r.body)

Min(S) == CHOOSE x \in S : \A y \in S : x <= y

Max(S) == CHOOSE x \in S : \A y \in S : x >= y

\* the match taken at the last "/cards/<digit>" instead of the first
CardNumber_last(loc) ==
  LET pat == L_cards \o L_slash
      n == Len(pat)
      starts == {i \in 1..Len(loc) :
                   /\ i + n <= Len(loc)
                   /\ SubSeq(loc, i, i + n - 1) = pat
                   /\ loc[i + n] \in Digits}
  IN  IF starts = {} THEN Null
      ELSE LET i == Max(starts)
               ends == {j \in (i + n)..Len(loc) :
                          \A k \in (i + n)..j : loc[k] \in Digits}
           IN  Str(SubSeq(loc, i + n, Max(ends)))

\* location.match(/\/cards\/(\d+)/): the leftmost "/cards/" that is followed
\* by a digit, and the longest run of digits after it; match ? match[1] : null
CardNumber(loc) ==
  LET pat == L_cards \o L_slash
      n == Len(pat)
      starts == {i \in 1..Len(loc) :
                   /\ i + n <= Len(loc)
                   /\ SubSeq(loc, i, i + n - 1) = pat
                   /\ loc[i + n] \in Digits}
  IN  IF starts = {} THEN Null
      ELSE LET i == Min(starts)
               ends == {j \in (i + n)..Len(loc) :
                          \A k \in (i + n)..j : loc[k] \in Digits}
           IN  Str(SubSeq(loc, i + n, Max(ends)))

\* the Location value is tested against null instead of for truthiness
Created_nullTest(r) ==
  IF r.location # Null
  THEN Obj([success |-> Bool(TRUE),
            message |-> Str(<<"Card created">>),
            card_number |-> CardNumber(r.location.s),
            location |-> r.location])
  ELSE Obj([success |-> Bool(TRUE)])

\* the 201 branch
Created(r) ==
  IF Truthy(r.location)
  THEN Obj([success |-> Bool(TRUE),
            message |-> Str(<<"Card created">>),
            card_number |-> CardNumber(r.location.s),
            location |-> r.location])
  ELSE Obj([success |-> Bool(TRUE)])

\* without the test for an empty text: JSON.parse("") throws and the
\* fallback wraps the empty text
ParseBody_noEmptyTest(text) ==
  IF IsJson(text) THEN text.json ELSE Obj([html |-> Str(text.raw)])

\* the body of a 2xx response other than 201
ParseBody(text) ==
  IF text = Raw(<<>>) THEN Obj(EmptyFields)
  ELSE IF IsJson(text) THEN text.json
       ELSE Obj([html |-> Str(text.raw)])

Normalize(r) ==
  IF IsRejected(r) THEN Throw([kind |-> "FetchRejected"])
  ELSE IF ~Ok(r)
       THEN LET text == ReadText(r)
            IN  IF text.thrown THEN text
                ELSE Throw([kind |-> "FizzyApiError", status |-> r.status,
                            text |-> text.val])
       ELSE IF r.status = 201 THEN Return(Created(r))
            ELSE LET text == ReadText(r)
                 IN  IF text.thrown THEN text
                     ELSE Return(ParseBody(text.val))

\* matches the nested board only
CardOnBoard_nestedOnly(card, boardId) ==
  LET board == Get(card, "board")
      nested == IF IsAbsent(board) THEN Undefined ELSE Get(board, "id")
  IN  nested = boardId

\* c.board?.id === boardId || c.board_id === boardId
CardOnBoard(card, boardId) ==
  LET board == Get(card, "board")
      nested == IF IsAbsent(board) THEN Undefined ELSE Get(board, "id")
  IN  nested = boardId \/ Get(card, "board_id") = boardId

\* listCards after the request resolved with `cards`
FilterCards(cards, boardId) ==
  IF Truthy(boardId)
  THEN IF cards.t # "array"
       THEN Throw([kind |-> "TypeError", what |-> "cards.filter"])
       ELSE IF \E i \in 1..Len(cards.items) : IsAbsent(cards.items[i])
            THEN Throw([kind |-> "TypeError", what |-> "c.board"])
            ELSE LET on(card) == CardOnBoard(card, boardId)
                 IN  Return(Arr(SelectSeq(cards.items, on)))
  ELSE Return(cards)

(***************************************************************************)
(* The CallTool handler (index.ts 519-638)                                 *)
(***************************************************************************)
\* the schema literal each case of the switch passes to validateToolArgs
Schema(toolName) ==
  CASE toolName = "fizzy_get_board" -> <<Field("board_id", "string")>>
    [] toolName = "fizzy_create_board" ->
         <<Field("name", "string"), Field("description", "string?")>>
    [] toolName = "fizzy_list_cards" -> <<Field("board_id", "string?")>>
    [] toolName = "fizzy_get_card" -> <<Field("card_id", "string")>>
    [] toolName = "fizzy_create_card" ->
         <<Field("board_id", "string"), Field("title", "string"),
           Field("description", "string?")>>
    [] toolName = "fizzy_update_card" ->
         <<Field("card_id", "string"), Field("title", "string?"),
           Field("description", "string?")>>
    [] toolName = "fizzy_move_card" ->
         <<Field("card_id", "string"), Field("column", "string")>>
    [] toolName = "fizzy_list_columns" -> <<Field("board_id", "string")>>
    [] toolName = "fizzy_add_comment" ->
         <<Field("card_id", "string"), Field("body", "string")>>
    [] toolName = "fizzy_list_comments" -> <<Field("card_id", "string")>>
    [] toolName = "fizzy_add_tag" ->
         <<Field("card_id", "string"), Field("tag", "string")>>
    [] toolName = "fizzy_remove_tag" ->
         <<Field("card_id", "string"), Field("tag", "string")>>
    [] OTHER -> <<>>

\* the cases of the switch that call validateToolArgs
Validating == {"fizzy_get_board", "fizzy_create_board", "fizzy_list_cards",
               "fizzy_get_card", "fizzy_create_card", "fizzy_update_card",
               "fizzy_move_card", "fizzy_list_columns", "fizzy_add_comment",
               "fizzy_list_comments", "fizzy_add_tag", "fizzy_remove_tag"}

\* the case labels of the switch
Cases == {"fizzy_list_boards"} \cup Validating

\* const v = validateToolArgs(args, {...}, name)
Validate(toolName, rawArgs) ==
  validateToolArgs(rawArgs, Schema(toolName), toolName)

\* the client call of a case, up to the request it hands to fetch
ClientCall(toolName, v) ==
  CASE toolName = "fizzy_get_board" -> getBoard(Get(v, "board_id"))
    [] toolName = "fizzy_create_board" ->
         createBoard(Get(v, "name"), Get(v, "description"))
    [] toolName = "fizzy_list_cards" -> listCardsRequest
    [] toolName = "fizzy_get_card" -> getCard(Get(v, "card_id"))
    [] toolName = "fizzy_create_card" ->
         createCard(Get(v, "board_id"), Get(v, "title"), Get(v, "description"))
    [] toolName = "fizzy_update_card" ->
         updateCard(Get(v, "card_id"),
                    Obj([title |-> Get(v, "title"),
                         description |-> Get(v, "description")]))
    [] toolName = "fizzy_move_card" ->
         IF Get(v, "column") = Str(S_done)
         THEN moveCardToDone(Get(v, "card_id"))
         ELSE IF Get(v, "column") = Str(S_not_now)
              THEN moveCardToNotNow(Get(v, "card_id"))
              ELSE moveCardToColumn(Get(v, "card_id"), Get(v, "column"))
    [] toolName = "fizzy_list_columns" -> listColumns(Get(v, "board_id"))
    [] toolName = "fizzy_add_comment" ->
         addComment(Get(v, "card_id"), Get(v, "body"))
    [] toolName = "fizzy_list_comments" -> listComments(Get(v, "card_id"))
    [] toolName = "fizzy_add_tag" -> addTag(Get(v, "card_id"), Get(v, "tag"))
    [] toolName = "fizzy_remove_tag" ->
         removeTag(Get(v, "card_id"), Get(v, "tag"))

\* the switch without its default case: an unmatched name falls to the
\* first case
Dispatch_noDefault(toolName, rawArgs) ==
  IF toolName \in Validating
  THEN LET v == Validate(toolName, rawArgs)
       IN  IF v.thrown THEN v ELSE ClientCall(toolName, v.val)
  ELSE listBoards

\* the handler from its start to its first await: it throws, or it has
\* handed one request to fetch
Dispatch(toolName, rawArgs) ==
  IF toolName = "fizzy_list_boards" THEN listBoards
  ELSE IF toolName \in Validating
       THEN LET v == Validate(toolName, rawArgs)
            IN  IF v.thrown THEN v ELSE ClientCall(toolName, v.val)
       ELSE Throw([kind |-> "UnknownTool", name |-> toolName])

\* the value request() resolved with becomes the result of every case
Resume_passThrough(toolName, rawArgs, r) ==
  LET res == Normalize(r)
      v == Validate(toolName, rawArgs).val
  IN  IF res.thrown THEN res
      ELSE IF toolName = "fizzy_list_cards"
           THEN FilterCards(res.val, Get(v, "board_id"))
           ELSE res

\* the handler after the request settled with response r: the value of
\* `result`, or what is thrown
Resume(toolName, rawArgs, r) ==
  LET res == Normalize(r)
      v == Validate(toolName, rawArgs).val
  IN  IF res.thrown THEN res
      ELSE CASE toolName = "fizzy_list_cards" ->
                  FilterCards(res.val, Get(v, "board_id"))
             [] toolName = "fizzy_move_card" ->
                  Return(Obj([success |-> Bool(TRUE),
                              message |-> Str(<<"Card moved to ">> \o
                                              Get(v, "column").s)]))
             [] toolName = "fizzy_add_tag" ->
                  Return(Obj([success |-> Bool(TRUE),
                              message |-> Str(<<"Tag '">> \o Get(v, "tag").s
                                              \o <<"' added to card">>)]))
             [] toolName = "fizzy_remove_tag" ->
                  Return(Obj([success |-> Bool(TRUE),
                              message |-> Str(<<"Tag '">> \o Get(v, "tag").s
                                              \o <<"' removed from card">>)]))
             [] OTHER -> res

\* the return statement of the try block
SuccessResponse(result) ==
  [content |-> <<[type |-> "text", text |-> JSONstringify(result)]>>]

\* the return statement of the catch block; every value thrown is an Error,
\* so message is error.message
ErrorResponse(error) ==
  [content |-> <<[type |-> "text", text |-> [error |-> error]]>>,
   isError |-> TRUE]

\* the catch block returns the text without the isError marker
TryCatch_unmarked(outcome) ==
  IF outcome.thrown
  THEN [content |-> <<[type |-> "text", text |-> [error |-> outcome.err]]>>]
  ELSE SuccessResponse(outcome.val)

\* try { ... } catch (error) { ... }
TryCatch(outcome) ==
  IF outcome.thrown THEN ErrorResponse(outcome.err)
  ELSE SuccessResponse(outcome.val)

(***************************************************************************)
(* Construction (index.ts 11-13, 95-99, 499)                               *)
(***************************************************************************)
FIZZY_URL_DEFAULT ==
  <<"h", "t", "t", "p", ":", "/", "/", "l", "o", "c", "a", "l", "h", "o",
    "s", "t", ":", "3", "7", "3", "7">>

\* process.env.X || fallback; an unset variable is Undefined
OrDefault(env, fallback) == IF Truthy(env) THEN env.s ELSE fallback

\* baseUrl.replace(/\/$/, "")
StripSlash(u) ==
  IF Len(u) > 0 /\ u[Len(u)] = "/" THEN SubSeq(u, 1, Len(u) - 1) ELSE u

NoResponse == [none |-> TRUE]

\* new FizzyClient(FIZZY_URL, FIZZY_TOKEN, FIZZY_ACCOUNT_ID), no call received
Construct(envUrl, envToken, envAccount) ==
  /\ baseUrl = StripSlash(OrDefault(envUrl, FIZZY_URL_DEFAULT))
  /\ token = OrDefault(envToken, <<>>)
  /\ accountId = OrDefault(envAccount, <<"1">>)
  /\ pc = [c \in CallIds |-> "idle"]
  /\ name = [c \in CallIds |-> ""]
  /\ args = [c \in CallIds |-> Undefined]
  /\ sent = [c \in CallIds |-> <<>>]
  /\ resp = [c \in CallIds |-> NoResponse]
  /\ out = [c \in CallIds |-> <<>>]

\* values of FIZZY_URL and FIZZY_TOKEN in the environment; Undefined is an
\* unset variable
Url_h1 == <<"h", "t", "t", "p", ":", "/", "/", "h", "/">>

Url_h2 == <<"h", "t", "t", "p", ":", "/", "/", "h", "/", "/">>

EnvUrls == {Undefined, Str(Url_h1), Str(Url_h2)}

EnvTokens == {Undefined, Str(<<"k", "e", "y">>)}

Init ==
  \E envUrl \in EnvUrls : \E envToken \in EnvTokens :
    Construct(envUrl, envToken, Undefined)

(***************************************************************************)
(* Steps of one call                                                       *)
(***************************************************************************)
\* the transport hands call c to the handler, which runs to its first
\* await: it has then answered with an error, or issued its request
\* the handler keeps the arguments of the latest call in one shared field
Receive_sharedArgs(c, toolName, rawArgs) ==
  /\ pc[c] = "idle"
  /\ name' = [name EXCEPT ![c] = toolName]
  /\ args' = [d \in CallIds |-> IF d = c \/ pc[d] = "awaiting"
                                 THEN rawArgs ELSE args[d]]
  /\ LET d == Dispatch(toolName, rawArgs)
     IN  IF d.thrown
         THEN /\ pc' = [pc EXCEPT ![c] = "done"]
              /\ out' = [out EXCEPT ![c] = Append(out[c], TryCatch(d))]
              /\ sent' = sent
         ELSE /\ pc' = [pc EXCEPT ![c] = "awaiting"]
              /\ sent' = [sent EXCEPT ![c] = Append(sent[c], d.val)]
              /\ out' = out
  /\ UNCHANGED <<config, resp>>

Receive(c, toolName, rawArgs) ==
  /\ pc[c] = "idle"
  /\ name' = [name EXCEPT ![c] = toolName]
  /\ args' = [args EXCEPT ![c] = rawArgs]
  /\ LET d == Dispatch(toolName, rawArgs)
     IN  IF d.thrown
         THEN /\ pc' = [pc EXCEPT ![c] = "done"]
              /\ out' = [out EXCEPT ![c] = Append(out[c], TryCatch(d))]
              /\ sent' = sent
         ELSE /\ pc' = [pc EXCEPT ![c] = "awaiting"]
              /\ sent' = [sent EXCEPT ![c] = Append(sent[c], d.val)]
              /\ out' = out
  /\ UNCHANGED <<config, resp>>

\* a rejected fetch is tried once more before the handler gives up
Settle_retry(c, r) ==
  /\ pc[c] = "awaiting"
  /\ IF IsRejected(r) /\ Len(sent[c]) < 2
     THEN /\ sent' = [sent EXCEPT ![c] = Append(sent[c], sent[c][1])]
          /\ UNCHANGED <<config, name, args, resp, out, pc>>
     ELSE /\ resp' = [resp EXCEPT ![c] = r]
          /\ out' = [out EXCEPT ![c] =
                       Append(out[c], TryCatch(Resume(name[c], args[c], r)))]
          /\ pc' = [pc EXCEPT ![c] = "done"]
          /\ UNCHANGED <<config, name, args, sent>>

\* the request of call c settles with response r and the handler runs to
\* its return
Settle(c, r) ==
  /\ pc[c] = "awaiting"
  /\ resp' = [resp EXCEPT ![c] = r]
  /\ out' = [out EXCEPT ![c] =
               Append(out[c], TryCatch(Resume(name[c], args[c], r)))]
  /\ pc' = [pc EXCEPT ![c] = "done"]
  /\ UNCHANGED <<config, name, args, sent>>

\* the transport has written the response of call c; the slot is free
Release(c) ==
  /\ pc[c] = "done"
  /\ pc' = [pc EXCEPT ![c] = "idle"]
  /\ name' = [name EXCEPT ![c] = ""]
  /\ args' = [args EXCEPT ![c] = Undefined]
  /\ sent' = [sent EXCEPT ![c] = <<>>]
  /\ resp' = [resp EXCEPT ![c] = NoResponse]
  /\ out' = [out EXCEPT ![c] = <<>>]
  /\ UNCHANGED config

(***************************************************************************)
(* Inputs                                                                  *)
(***************************************************************************)
S_a1 == <<"a", "1">>

S_b2 == <<"b", "2">>

S_slashed == <<"a", "b", "c", "/", "1", "2", "3">>

S_x == <<"x">>

ToolNames == Cases \cup {"fizzy_delete_card"}

WrongTyped == {Num(7), Bool(FALSE), Arr(<<>>)}

IdValues ==
  {Undefined, Null} \cup WrongTyped \cup {Str(<<>>), Str(S_a1), Str(S_slashed)}

ColumnValues == IdValues \cup {Str(S_done), Str(S_not_now)}

TextValues == {Undefined, Null} \cup WrongTyped \cup {Str(S_x)}

FieldValues(field) ==
  CASE field \in {"board_id", "card_id"} -> IdValues
    [] field = "column" -> ColumnValues
    [] field = "extra" -> {Undefined, Str(S_x)}
    [] OTHER -> TextValues

\* objects over the fields of the tool's schema and one undeclared field
ObjectBags(toolName) ==
  LET sch == Schema(toolName)
      F == {sch[i].field : i \in 1..Len(sch)} \cup {"extra"}
      G == {g \in [F -> ColumnValues \cup TextValues] :
              \A k \in F : g[k] \in FieldValues(k)}
  IN  {Obj([k \in {j \in F : g[j] # Undefined} |-> g[k]]) : g \in G}

NonObjects ==
  {Undefined, Null, Str(<<>>), Str(S_x), Num(0), Num(7), Bool(FALSE),
   Bool(TRUE), Arr(<<>>)}

RawArgs(toolName) == NonObjects \cup ObjectBags(toolName)

Statuses == {200, 201, 299, 300, 404}

Loc_card42 ==
  <<"/", "1", "/", "c", "a", "r", "d", "s", "/", "4", "2", ".", "j", "s",
    "o", "n">>

Loc_board3 == <<"/", "1", "/", "b", "o", "a", "r", "d", "s", "/", "3">>

Loc_nodigit == <<"/", "c", "a", "r", "d", "s", "/">>

Loc_second ==
  <<"/", "c", "a", "r", "d", "s", "/", "x", "/", "c", "a", "r", "d", "s",
    "/", "7">>

Loc_two ==
  <<"/", "c", "a", "r", "d", "s", "/", "4", "2", "/", "c", "a", "r", "d",
    "s", "/", "9">>

Locations ==
  {Null, Str(<<>>), Str(Loc_card42), Str(Loc_board3), Str(Loc_nodigit),
   Str(Loc_second), Str(Loc_two)}

CardList ==
  Arr(<<Obj([id |-> Str(<<"1">>), board |-> Obj([id |-> Str(S_a1)])]),
        Obj([id |-> Str(<<"2">>), board_id |-> Str(S_b2)]),
        Obj([id |-> Str(<<"3">>), board_id |-> Str(S_a1)]),
        Obj([id |-> Str(<<"4">>), board |-> Null, board_id |-> Str(S_slashed)]),
        Obj([id |-> Str(<<"5">>), board |-> Obj([id |-> Str(S_b2)]),
             board_id |-> Str(S_a1)]),
        Obj([id |-> Str(<<"6">>), title |-> Str(S_x)]),
        Obj([id |-> Str(<<"7">>), board |-> Obj([id |-> Str(S_a1)]),
             board_id |-> Str(S_b2)])>>)

Bodies ==
  {Raw(<<>>), Raw(<<"not found">>), Raw(<<"<div>not now</div>">>),
   Json(Obj([id |-> Str(S_a1)])), Json(CardList), Json(Null), Unreadable}

Responses ==
  {Rejected} \cup
  {[status |-> st, location |-> loc, body |-> b] :
     st \in Statuses, loc \in Locations, b \in Bodies}

(***************************************************************************)
(* Specification: the transport delivers one call at a time                *)
(***************************************************************************)
OthersIdle(c) == \A d \in CallIds \ {c} : pc[d] = "idle"

Call(c) ==
  /\ pc[c] = "idle"
  /\ OthersIdle(c)
  /\ \E toolName \in ToolNames : \E rawArgs \in RawArgs(toolName) :
       Receive(c, toolName, rawArgs)

Answer(c) ==
  /\ pc[c] = "awaiting"
  /\ \E r \in Responses : Settle(c, r)

Next == \E c \in CallIds : Call(c) \/ Answer(c) \/ Release(c)

Spec == Init /\ [][Next]_vars

(***************************************************************************)
(* The operation registry TOOLS (index.ts 279-495)                         *)
(***************************************************************************)
\* the keys of inputSchema.properties, in declaration order
Properties(toolName) ==
  CASE toolName = "fizzy_list_boards" -> <<>>
    [] toolName = "fizzy_get_board" -> <<"board_id">>
    [] toolName = "fizzy_create_board" -> <<"name", "description">>
    [] toolName = "fizzy_list_cards" -> <<"board_id">>
    [] toolName = "fizzy_get_card" -> <<"card_id">>
    [] toolName = "fizzy_create_card" -> <<"board_id", "title", "description">>
    [] toolName = "fizzy_update_card" -> <<"card_id", "title", "description">>
    [] toolName = "fizzy_move_card" -> <<"card_id", "column">>
    [] toolName = "fizzy_list_columns" -> <<"board_id">>
    [] toolName = "fizzy_add_comment" -> <<"card_id", "body">>
    [] toolName = "fizzy_list_comments" -> <<"card_id">>
    [] toolName = "fizzy_add_tag" -> <<"card_id", "tag">>
    [] toolName = "fizzy_remove_tag" -> <<"card_id", "tag">>

\* inputSchema.required
Required(toolName) ==
  CASE toolName = "fizzy_list_boards" -> {}
    [] toolName = "fizzy_get_board" -> {"board_id"}
    [] toolName = "fizzy_create_board" -> {"name"}
    [] toolName = "fizzy_list_cards" -> {}
    [] toolName = "fizzy_get_card" -> {"card_id"}
    [] toolName = "fizzy_create_card" -> {"board_id", "title"}
    [] toolName = "fizzy_update_card" -> {"card_id"}
    [] toolName = "fizzy_move_card" -> {"card_id", "column"}
    [] toolName = "fizzy_list_columns" -> {"board_id"}
    [] toolName = "fizzy_add_comment" -> {"card_id", "body"}
    [] toolName = "fizzy_list_comments" -> {"card_id"}
    [] toolName = "fizzy_add_tag" -> {"card_id", "tag"}
    [] toolName = "fizzy_remove_tag" -> {"card_id", "tag"}

\* the names TOOLS registers
Registered == {"fizzy_list_boards", "fizzy_get_board", "fizzy_create_board",
               "fizzy_list_cards", "fizzy_get_card", "fizzy_create_card",
               "fizzy_update_card", "fizzy_move_card", "fizzy_list_columns",
               "fizzy_add_comment", "fizzy_list_comments", "fizzy_add_tag",
               "fizzy_remove_tag"}

(***************************************************************************)
(* Vocabulary of the properties                                            *)
(***************************************************************************)
Active == {c \in CallIds : pc[c] # "idle"}

Finished == {c \in CallIds : pc[c] = "done"}

Range(q) == {q[i] : i \in 1..Len(q)}

\* the response shapes of the transport contract
IsSuccessShape(r) ==
  /\ DOMAIN r = {"content"}
  /\ Len(r.content) = 1
  /\ r.content[1].type = "text"
  /\ DOMAIN r.content[1].text = {"json"}

IsErrorShape(r) ==
  /\ DOMAIN r = {"content", "isError"}
  /\ r.isError = TRUE
  /\ Len(r.content) = 1
  /\ r.content[1].type = "text"
  /\ DOMAIN r.content[1].text = {"error"}

\* call c has returned an error response whose message is of kind k
FailedWith(c, k) ==
  /\ pc[c] = "done"
  /\ Len(out[c]) = 1
  /\ IsErrorShape(out[c][1])
  /\ out[c][1].content[1].text.error.kind \in k

ErrorOf(c) == out[c][1].content[1].text.error

\* call c has returned the success response carrying the JSON of v
SucceededWith(c, v) ==
  /\ pc[c] = "done"
  /\ out[c] = <<[content |-> <<[type |-> "text", text |-> Json(v)]>>]>>

ValidationError == {"RequiresArguments", "ValidationFailed"}

InvalidIdentifier == {"InvalidIdEmpty", "InvalidIdChars"}

\* the raw argument value is record-shaped for validateToolArgs
IsBag(v) == v.t \in {"object", "array"}

Present(v) == v.t \notin {"undefined", "null"}

(***************************************************************************)
(* C1: every call gets exactly one response, and that response is either   *)
(* a success response (no isError, text the JSON of the result) or an      *)
(* error response (isError set, text Error: message), never both and never *)
(* neither; before the handler returns there is no response.               *)
(***************************************************************************)
C1_OneResponse ==
  \A c \in CallIds :
    /\ pc[c] = "done" =>
         /\ Len(out[c]) = 1
         /\ IsSuccessShape(out[c][1]) # IsErrorShape(out[c][1])
    /\ pc[c] # "done" => out[c] = <<>>
    /\ pc[c] = "done" /\ resp[c] # NoResponse /\ IsRejected(resp[c]) =>
         IsErrorShape(out[c][1])

\* list-cards with a board filter got a 2xx body that is not an array
C1_Witness ==
  \E c \in Finished :
    /\ name[c] = "fizzy_list_cards"
    /\ Truthy(Get(args[c], "board_id"))
    /\ resp[c] # NoResponse /\ ~IsRejected(resp[c])
    /\ resp[c].status = 200
    /\ resp[c].body = Json(Obj([id |-> Str(S_a1)]))
    /\ FailedWith(c, {"TypeError"})

(***************************************************************************)
(* C2: identifier validation                                               *)
(***************************************************************************)
\* the arguments of an operation that name a board, a card or a column
IdArgs(toolName) ==
  Range(Properties(toolName)) \cap {"board_id", "card_id", "column"}

\* a string that is empty or has a character outside [a-zA-Z0-9]
BadId(v) ==
  /\ v.t = "string"
  /\ \/ v.s = <<>>
     \/ \E i \in 1..Len(v.s) : v.s[i] \notin (Lower \cup Upper \cup Digits)

\* the raw arguments satisfy the operation's registered input schema
ArgsValid(toolName, a) ==
  /\ IsBag(a)
  /\ \A f \in Range(Properties(toolName)) :
       /\ f \in Required(toolName) => Present(Get(a, f))
       /\ Present(Get(a, f)) => Get(a, f).t = "string"

\* the identifier arguments the operation places in the request path
PathIds(toolName, a) ==
  {f \in IdArgs(toolName) :
     /\ toolName # "fizzy_list_cards"
     /\ f = "column" => Get(a, f) \notin {Str(S_done), Str(S_not_now)}}

\* C2 as stated: in every identifier-bearing operation, list-cards and the
\* column of move-card included, an empty or non-alphanumeric identifier
\* makes the call fail with InvalidIdentifier without a network request.
C2_Original ==
  \A c \in Active :
    (/\ name[c] \in Registered
     /\ \E f \in IdArgs(name[c]) : BadId(Get(args[c], f)))
    => /\ FailedWith(c, InvalidIdentifier)
       /\ sent[c] = <<>>

\* C2 amended: for an identifier that is placed in the request path (board_id
\* or card_id of every operation but list-cards, and the column of move-card
\* unless it is "done" or "not_now"), an empty or non-alphanumeric value
\* makes the call fail without a network request, with InvalidIdentifier
\* when the arguments pass validation and with ValidationError otherwise;
\* list-cards does not check its board_id filter and issues its request.
C2_PathIdsChecked ==
  \A c \in Active :
    name[c] \in Registered =>
      /\ (\E f \in PathIds(name[c], args[c]) : BadId(Get(args[c], f))) =>
           /\ sent[c] = <<>>
           /\ IF ArgsValid(name[c], args[c])
              THEN FailedWith(c, InvalidIdentifier)
              ELSE FailedWith(c, ValidationError)
      /\ (/\ name[c] = "fizzy_list_cards"
          /\ ArgsValid(name[c], args[c])
          /\ BadId(Get(args[c], "board_id"))) => Len(sent[c]) = 1

\* move-card with a valid card id and the column "abc/123"
C2_Witness ==
  \E c \in Finished :
    /\ name[c] = "fizzy_move_card"
    /\ Get(args[c], "card_id") = Str(S_a1)
    /\ Get(args[c], "column") = Str(S_slashed)
    /\ FailedWith(c, {"InvalidIdChars"})
    /\ ErrorOf(c).param = "columnId"
    /\ sent[c] = <<>>

(***************************************************************************)
(* C3: 201 with a Location header                                          *)
(***************************************************************************)
\* the operations whose result is the value request() returned
PassesThrough(toolName, a) ==
  \/ toolName \in {"fizzy_list_boards", "fizzy_get_board",
                   "fizzy_create_board", "fizzy_get_card",
                   "fizzy_create_card", "fizzy_update_card",
                   "fizzy_list_columns", "fizzy_add_comment",
                   "fizzy_list_comments"}
  \/ toolName = "fizzy_list_cards" /\ ~Truthy(Get(a, "board_id"))

\* "/cards/" followed by a digit starts at position i of loc
CardsDigitAt(loc, i) ==
  /\ i + 7 <= Len(loc)
  /\ SubSeq(loc, i, i + 6) = <<"/", "c", "a", "r", "d", "s", "/">>
  /\ loc[i + 7] \in Digits

\* n is the digits of the first "/cards/<digits>" segment of loc, or null
\* when loc has no such segment
IsFirstCardNumber(loc, n) ==
  IF \A i \in 1..Len(loc) : ~CardsDigitAt(loc, i)
  THEN n = Null
  ELSE \E i \in 1..Len(loc) : \E k \in 1..Len(loc) :
         /\ CardsDigitAt(loc, i)
         /\ \A j \in 1..(i - 1) : ~CardsDigitAt(loc, j)
         /\ k >= i + 7
         /\ \A m \in (i + 7)..k : loc[m] \in Digits
         /\ k = Len(loc) \/ loc[k + 1] \notin Digits
         /\ n = Str(SubSeq(loc, i + 7, k))

CardNumbers(loc) ==
  {Null} \cup {Str(SubSeq(loc, i, k)) : i \in 1..Len(loc), k \in 1..Len(loc)}

\* the request of call c settled with an HTTP response
Responded(c) == resp[c] # NoResponse /\ ~IsRejected(resp[c])

Got201WithLocation(c) ==
  /\ pc[c] = "done"
  /\ Responded(c)
  /\ resp[c].status = 201
  /\ resp[c].location.t = "string"
  /\ resp[c].location.s # <<>>

MissingRequired(toolName, a) ==
  {f \in Required(toolName) : ~Present(Get(a, f))}

\* the declared fields of the operation that a carries with a non-string
WrongTypedDeclared(toolName, a) ==
  {f \in Range(Properties(toolName)) :
     Present(Get(a, f)) /\ Get(a, f).t # "string"}

\* C4: a call whose argument bag lacks required fields returns a
\* ValidationError whose Missing list holds exactly the missing required
\* fields, each once, and issues no network request.
C4_MissingExactly ==
  \A c \in Active :
    (/\ name[c] \in Registered
     /\ IsBag(args[c])
     /\ MissingRequired(name[c], args[c]) # {})
    => /\ FailedWith(c, {"ValidationFailed"})
       /\ Range(ErrorOf(c).missing) = MissingRequired(name[c], args[c])
       /\ Len(ErrorOf(c).missing) =
            Cardinality(MissingRequired(name[c], args[c]))
       /\ sent[c] = <<>>

\* create-card with board_id null, title absent and description given
C4_Witness ==
  \E c \in Finished :
    /\ name[c] = "fizzy_create_card"
    /\ args[c] = Obj([board_id |-> Null, description |-> Str(S_x)])
    /\ FailedWith(c, {"ValidationFailed"})
    /\ ErrorOf(c).missing = <<"board_id", "title">>
    /\ sent[c] = <<>>

\* C5: a call in which a declared field, required or optional, is present
\* with a non-string value returns a ValidationError that lists the field
\* with the expected type string and the typeof of the value, and issues
\* no network request.
C5_WrongTypeListed ==
  \A c \in Active :
    (/\ name[c] \in Registered
     /\ IsBag(args[c])
     /\ WrongTypedDeclared(name[c], args[c]) # {})
    => /\ FailedWith(c, {"ValidationFailed"})
       /\ \A f \in WrongTypedDeclared(name[c], args[c]) :
            [field |-> f, expected |-> "string",
             got |-> TypeOf(Get(args[c], f))] \in Range(ErrorOf(c).wrongType)
       /\ sent[c] = <<>>

\* update-card with a number as title and a boolean as description
C5_Witness ==
  \E c \in Finished :
    /\ name[c] = "fizzy_update_card"
    /\ args[c] = Obj([card_id |-> Str(S_a1), title |-> Num(7),
                      description |-> Bool(FALSE)])
    /\ FailedWith(c, {"ValidationFailed"})
    /\ ErrorOf(c).wrongType =
         <<[field |-> "title", expected |-> "string", got |-> "number"],
           [field |-> "description", expected |-> "string",
            got |-> "boolean"]>>
    /\ sent[c] = <<>>

\* C6: the one ValidationError of a call names every missing required field
\* and every wrong-typed field of the schema, each list in schema order.
C6_AllViolationsInOrder ==
  \A c \in Active :
    (/\ name[c] \in Registered
     /\ IsBag(args[c])
     /\ MissingRequired(name[c], args[c]) \cup
          WrongTypedDeclared(name[c], args[c]) # {})
    => /\ FailedWith(c, {"ValidationFailed"})
       /\ ErrorOf(c).missing =
            SelectSeq(Properties(name[c]),
                      LAMBDA f : f \in MissingRequired(name[c], args[c]))
       /\ [i \in 1..Len(ErrorOf(c).wrongType) |-> ErrorOf(c).wrongType[i].field]
            = SelectSeq(Properties(name[c]),
                        LAMBDA f : f \in WrongTypedDeclared(name[c], args[c]))

\* create-card with board_id absent and both other fields wrong-typed
C6_Witness ==
  \E c \in Finished :
    /\ name[c] = "fizzy_create_card"
    /\ args[c] = Obj([title |-> Num(7), description |-> Arr(<<>>)])
    /\ FailedWith(c, {"ValidationFailed"})
    /\ ErrorOf(c).missing = <<"board_id">>
    /\ Len(ErrorOf(c).wrongType) = 2
    /\ ErrorOf(c).wrongType[1].field = "title"
    /\ ErrorOf(c).wrongType[2].field = "description"

(***************************************************************************)
(* C7: argument values that are not record-shaped                          *)
(***************************************************************************)
NonRecord(v) ==
  v.t \in {"undefined", "null", "string", "number", "boolean", "array"}

\* C7 as stated: for every operation, an absent or non-record argument
\* value (a string, number, boolean or array) fails with a ValidationError
\* and issues no network request.
C7_Original ==
  \A c \in Active :
    name[c] \in Registered /\ NonRecord(args[c]) =>
      /\ FailedWith(c, ValidationError)
      /\ sent[c] = <<>>

\* What the handler does with such a value: list-boards does not validate
\* its arguments and issues its request; every other operation rejects an
\* absent or primitive value with "requires arguments object"; an array
\* passes the typeof test, so an operation with required fields reports all
\* of them missing and list-cards issues its request.
C7_NonRecordArgs ==
  \A c \in Active :
    name[c] \in Registered /\ NonRecord(args[c]) =>
      IF name[c] = "fizzy_list_boards" THEN Len(sent[c]) = 1
      ELSE IF args[c].t # "array"
           THEN FailedWith(c, {"RequiresArguments"}) /\ sent[c] = <<>>
           ELSE IF Required(name[c]) = {} THEN Len(sent[c]) = 1
                ELSE /\ FailedWith(c, {"ValidationFailed"})
                     /\ Range(ErrorOf(c).missing) = Required(name[c])
                     /\ sent[c] = <<>>

(***************************************************************************)
(* C8: a name the switch has no case for                                   *)
(***************************************************************************)
\* C8: a call whose operation name is not registered returns the error
\* response "Unknown tool: <name>" and issues no network request, whatever
\* its arguments.
C8_UnknownOperation ==
  \A c \in Active :
    name[c] \notin Registered =>
      /\ FailedWith(c, {"UnknownTool"})
      /\ ErrorOf(c) = [kind |-> "UnknownTool", name |-> name[c]]
      /\ sent[c] = <<>>

\* an unregistered name called with an arguments object
C8_Witness ==
  \E c \in Finished :
    /\ name[c] = "fizzy_delete_card"
    /\ args[c] = Obj([extra |-> Str(S_x)])
    /\ FailedWith(c, {"UnknownTool"})
    /\ sent[c] = <<>>

(***************************************************************************)
(* C9: a response outside 200..299                                         *)
(***************************************************************************)
\* C9: when the response status is outside 200..299 (and its body can be
\* read), the call returns an error response whose message carries the
\* status code and the raw body text, for every operation, the ones with a
\* locally built success payload included; no success payload is returned.
C9_RemoteError ==
  \A c \in Finished :
    (/\ Responded(c)
     /\ resp[c].status \notin 200..299
     /\ resp[c].body # Unreadable)
    => /\ FailedWith(c, {"FizzyApiError"})
       /\ ErrorOf(c) = [kind |-> "FizzyApiError", status |-> resp[c].status,
                        text |-> resp[c].body]
       /\ ~IsSuccessShape(out[c][1])
       /\ Len(sent[c]) = 1

\* move-card to a column answered 404 "not found"
C9_Witness ==
  \E c \in Finished :
    /\ name[c] = "fizzy_move_card"
    /\ Responded(c)
    /\ resp[c].status = 404
    /\ resp[c].body = Raw(<<"not found">>)
    /\ ErrorOf(c) = [kind |-> "FizzyApiError", status |-> 404,
                     text |-> Raw(<<"not found">>)]

(***************************************************************************)
(* C10: the three endpoints of move-card                                   *)
(***************************************************************************)
\* a move-card call that passes argument and identifier validation
ValidMove(a) ==
  /\ ArgsValid("fizzy_move_card", a)
  /\ ~BadId(Get(a, "card_id"))
  /\ Get(a, "column") \in {Str(S_done), Str(S_not_now)}
       \/ ~BadId(Get(a, "column"))

CardPath(a) == <<"/", "c", "a", "r", "d", "s", "/">> \o Get(a, "card_id").s

\* C10: a valid move-card call issues exactly one request: POST
\* /cards/{id}/closure without body for column "done", POST
\* /cards/{id}/not_now without body for column "not_now", and for any other
\* column PATCH /cards/{id}/column with body {column_id: <column>}; a
\* move-card call that is not valid issues none.
C10_MoveDispatch ==
  \A c \in Active :
    name[c] = "fizzy_move_card" =>
      IF ValidMove(args[c])
      THEN /\ Len(sent[c]) = 1
           /\ LET q == sent[c][1]
                  col == Get(args[c], "column")
              IN  CASE col = Str(S_done) ->
                         /\ q.method = "POST"
                         /\ q.path = CardPath(args[c]) \o
                              <<"/", "c", "l", "o", "s", "u", "r", "e">>
                         /\ q.body = NoBody
                    [] col = Str(S_not_now) ->
                         /\ q.method = "POST"
                         /\ q.path = CardPath(args[c]) \o
                              <<"/", "n", "o", "t", "_", "n", "o", "w">>
                         /\ q.body = NoBody
                    [] OTHER ->
                         /\ q.method = "PATCH"
                         /\ q.path = CardPath(args[c]) \o
                              <<"/", "c", "o", "l", "u", "m", "n">>
                         /\ q.body = Json(Obj([column_id |-> col]))
      ELSE sent[c] = <<>>

\* move-card to "done" has issued the closure request
C10_Witness ==
  \E c \in Active :
    /\ name[c] = "fizzy_move_card"
    /\ Get(args[c], "column") = Str(S_done)
    /\ Len(sent[c]) = 1
    /\ sent[c][1].method = "POST"
    /\ sent[c][1].path =
         <<"/", "c", "a", "r", "d", "s", "/", "a", "1",
           "/", "c", "l", "o", "s", "u", "r", "e">>

(***************************************************************************)
(* C11: one request per call                                               *)
(***************************************************************************)
\* the call passes lookup, argument validation and identifier validation
PassesAll(toolName, a) ==
  /\ toolName \in Registered
  /\ toolName = "fizzy_list_boards" \/ ArgsValid(toolName, a)
  /\ \A f \in PathIds(toolName, a) : ~BadId(Get(a, f))

\* the requests of a call are never added to once the first was issued
NoReissue ==
  \A c \in CallIds :
    (pc[c] # "idle" /\ pc'[c] # "idle" /\ sent[c] # <<>>) => sent'[c] = sent[c]

\* C11: a call that passes lookup, argument validation and identifier
\* validation issues exactly one request; no call issues more than one; a
\* call waits for at most one request; a request that failed (non-2xx or
\* rejected fetch) is not issued again.
C11_OneRequest ==
  /\ [](\A c \in CallIds :
          /\ Len(sent[c]) <= 1
          /\ pc[c] = "awaiting" => Len(sent[c]) = 1
          /\ pc[c] # "idle" =>
               (Len(sent[c]) = 1 <=> PassesAll(name[c], args[c])))
  /\ [][NoReissue]_vars

\* a call whose fetch was rejected has returned with its one request
C11_Witness ==
  \E c \in Finished :
    /\ resp[c] = Rejected
    /\ Len(sent[c]) = 1
    /\ FailedWith(c, {"FetchRejected"})

(***************************************************************************)
(* C12: the stored base URL                                                *)
(***************************************************************************)
\* C12: the stored base URL has no trailing slash, whatever string the
\* constructor was given, so every request URL is <base>/<accountId><path>
\* with a single slash between base and account id.
C12_NoTrailingSlash ==
  /\ baseUrl = <<>> \/ baseUrl[Len(baseUrl)] # "/"
  /\ \A c \in CallIds : \A i \in 1..Len(sent[c]) :
       sent[c][i].url = baseUrl \o <<"/">> \o accountId \o sent[c][i].path

(***************************************************************************)
(* C13, C14: 2xx responses                                                 *)
(***************************************************************************)
\* call c got a 2xx response other than 201 whose body could be read
Got2xxBody(c) ==
  /\ pc[c] = "done"
  /\ Responded(c)
  /\ resp[c].status \in 200..299
  /\ resp[c].status # 201
  /\ resp[c].body # Unreadable

\* C13: for a 2xx response other than 201, request() returns {} for an empty
\* body, the parsed value for a body that is JSON, and {html: <body>} for
\* any other body, without raising an error.
C13_BodyNormalised ==
  \A c \in Finished :
    Got2xxBody(c) /\ PassesThrough(name[c], args[c]) =>
      LET body == resp[c].body
      IN  CASE body = [raw |-> <<>>] ->
                 SucceededWith(c, [t |-> "object", f |-> EmptyFields])
            [] DOMAIN body = {"json"} -> SucceededWith(c, body.json)
            [] OTHER ->
                 SucceededWith(c, [t |-> "object",
                                   f |-> [html |-> Str(body.raw)]])

\* get-board answered 299 with an HTML fragment
C13_Witness ==
  \E c \in Finished :
    /\ name[c] = "fizzy_get_board"
    /\ Got2xxBody(c)
    /\ resp[c].status = 299
    /\ resp[c].body = Raw(<<"<div>not now</div>">>)
    /\ SucceededWith(c, Obj([html |-> Str(<<"<div>not now</div>">>)]))

\* C14: for a 201 response whose Location header is absent or empty,
\* request() returns exactly {success: true} whatever the body holds, and
\* does not read the body.
C14_CreatedNoLocation ==
  \A c \in Finished :
    (/\ Responded(c)
     /\ resp[c].status = 201
     /\ resp[c].location \in {Null, Str(<<>>)}
     /\ PassesThrough(name[c], args[c]))
    => SucceededWith(c, Obj([success |-> Bool(TRUE)]))

\* create-board answered 201 with an empty Location value and a body that
\* cannot be read
C14_Witness ==
  \E c \in Finished :
    /\ name[c] = "fizzy_create_board"
    /\ Responded(c)
    /\ resp[c].status = 201
    /\ resp[c].location = Str(<<>>)
    /\ resp[c].body = Unreadable
    /\ SucceededWith(c, Obj([success |-> Bool(TRUE)]))

(***************************************************************************)
(* Specification: calls arrive while others are in flight                  *)
(***************************************************************************)
Invoke(toolName, rawArgs) == [tool |-> toolName, arguments |-> rawArgs]

TagArgs(cardId) == Obj([card_id |-> Str(cardId), tag |-> Str(S_x)])

ConcCalls ==
  {Invoke("fizzy_get_board", Obj([board_id |-> Str(S_a1)])),
   Invoke("fizzy_get_board", Obj([board_id |-> Str(S_slashed)])),
   Invoke("fizzy_list_cards", Obj([board_id |-> Str(S_a1)])),
   Invoke("fizzy_move_card",
          Obj([card_id |-> Str(S_a1), column |-> Str(S_done)])),
   Invoke("fizzy_add_tag", TagArgs(S_a1)),
   Invoke("fizzy_remove_tag", TagArgs(S_a1)),
   Invoke("fizzy_add_tag", TagArgs(S_slashed)),
   Invoke("fizzy_remove_tag", TagArgs(S_slashed)),
   Invoke("fizzy_delete_card", Undefined)}

ConcResponses ==
  {Rejected,
   [status |-> 200, location |-> Null, body |-> Json(CardList)],
   [status |-> 200, location |-> Null,
    body |-> Raw(<<"<div>not now</div>">>)],
   [status |-> 201, location |-> Str(Loc_card42), body |-> Raw(<<>>)],
   [status |-> 404, location |-> Null, body |-> Raw(<<"not found">>)]}

\* the handler is invoked for call c, whatever the other calls are doing
Arrive(c) ==
  /\ pc[c] = "idle"
  /\ \E call \in ConcCalls : Receive(c, call.tool, call.arguments)

\* the request of call c settles, in any order relative to the others
Reply(c) ==
  /\ pc[c] = "awaiting"
  /\ \E r \in ConcResponses : Settle(c, r)

NextConc == \E c \in CallIds : Arrive(c) \/ Reply(c) \/ Release(c)

SpecConc == Init /\ [][NextConc]_vars

(***************************************************************************)
(* C15: add-tag and remove-tag                                             *)
(***************************************************************************)
IsTagCall(c) ==
  pc[c] # "idle" /\ name[c] \in {"fizzy_add_tag", "fizzy_remove_tag"}

\* C15: for the same card_id and tag, add-tag and remove-tag (and two
\* remove-tag calls) issue the same request, POST /cards/{id}/taggings with
\* body {tag_title: <tag>}, each call issuing its own; the operations differ
\* only in the success message built locally.
C15_SameToggleRequest ==
  /\ \A c \in CallIds : \A d \in CallIds :
       (/\ IsTagCall(c) /\ IsTagCall(d)
        /\ Get(args[c], "card_id") = Get(args[d], "card_id")
        /\ Get(args[c], "tag") = Get(args[d], "tag"))
       => sent[c] = sent[d]
  /\ \A c \in CallIds :
       IsTagCall(c) /\ PassesAll(name[c], args[c]) =>
         /\ Len(sent[c]) = 1
         /\ sent[c][1].method = "POST"
         /\ sent[c][1].path =
              <<"/", "c", "a", "r", "d", "s", "/">> \o Get(args[c], "card_id").s
                \o <<"/", "t", "a", "g", "g", "i", "n", "g", "s">>
         /\ sent[c][1].body = Json(Obj([tag_title |-> Get(args[c], "tag")]))
  /\ \A c \in Finished :
       (IsTagCall(c) /\ Responded(c) /\ resp[c].status = 200) =>
         SucceededWith(c,
           Obj([success |-> Bool(TRUE),
                message |->
                  Str(<<"Tag '">> \o Get(args[c], "tag").s \o
                      (IF name[c] = "fizzy_add_tag"
                       THEN <<"' added to card">>
                       ELSE <<"' removed from card">>))]))

\* an add-tag and a remove-tag call for the same card and tag both wait for
\* their request
C15_Witness ==
  \E c \in CallIds : \E d \in CallIds :
    /\ name[c] = "fizzy_add_tag" /\ pc[c] = "awaiting"
    /\ name[d] = "fizzy_remove_tag" /\ pc[d] = "awaiting"
    /\ args[c] = args[d]
    /\ Len(sent[d]) = 1
    /\ sent[c] = sent[d]

(***************************************************************************)
(* C16: list-cards                                                         *)
(***************************************************************************)
\* the board references a card carries: its flat board_id and the id of its
\* nested board
BoardRefs(card) ==
  {Get(card, "board_id")} \cup
    (IF Get(card, "board").t = "object"
     THEN {Get(Get(card, "board"), "id")} ELSE {})

\* a list-cards call with valid arguments has received a 2xx response (not
\* 201) whose body is a JSON array
GotCollection(c) ==
  /\ name[c] = "fizzy_list_cards"
  /\ ArgsValid(name[c], args[c])
  /\ Got2xxBody(c)
  /\ IsJson(resp[c].body)
  /\ resp[c].body.json.t = "array"

\* every list-cards call with valid arguments issues one GET
\* <base>/<account>/cards, whatever the filter
OneGetCards ==
  \A c \in Active :
    name[c] = "fizzy_list_cards" /\ ArgsValid(name[c], args[c]) =>
      /\ Len(sent[c]) = 1
      /\ sent[c][1].method = "GET"
      /\ sent[c][1].url =
           baseUrl \o <<"/">> \o accountId \o <<"/", "c", "a", "r", "d", "s">>
      /\ sent[c][1].body = NoBody

\* the result of a list-cards call: the cards on board f when `filtered`,
\* the whole collection otherwise
ListedAs(c, filtered) ==
  LET cards == resp[c].body.json
      f == Get(args[c], "board_id")
      on(card) == f \in BoardRefs(card)
  IN  SucceededWith(c, IF filtered THEN Arr(SelectSeq(cards.items, on))
                       ELSE cards)

\* C16 as stated: whenever a board_id is supplied, the empty string
\* included, the result is the sub-sequence of the cards on that board.
C16_Original ==
  /\ OneGetCards
  /\ \A c \in Finished :
       GotCollection(c) => ListedAs(c, Present(Get(args[c], "board_id")))

\* C16 (amended): list-cards issues one GET <base>/<account>/cards; with a
\* non-empty board_id the result is the sub-sequence, in the remote order,
\* of the cards whose nested board.id or flat board_id equals it; with no
\* board_id, or with the empty string, the result is the collection
\* unchanged.
C16_FilteredClientSide ==
  /\ OneGetCards
  /\ \A c \in Finished :
       GotCollection(c) =>
         ListedAs(c, /\ Present(Get(args[c], "board_id"))
                     /\ Get(args[c], "board_id").s # <<>>)

\* a list-cards call filtered by board a1 returned cards 1, 3, 5 and 7 of
\* the seven the remote service sent
C16_Witness ==
  \E c \in Finished :
    /\ GotCollection(c)
    /\ Get(args[c], "board_id") = Str(S_a1)
    /\ resp[c].body = Json(CardList)
    /\ SucceededWith(c, Arr(<<CardList.items[1], CardList.items[3],
                              CardList.items[5], CardList.items[7]>>))

(***************************************************************************)
(* C17: calls in flight at the same time                                   *)
(***************************************************************************)
\* what the handler returns for the name, arguments and response of call c
OwnResult(c) ==
  IF resp[c] = NoResponse
  THEN TryCatch(Dispatch(name[c], args[c]))
  ELSE TryCatch(Resume(name[c], args[c], resp[c]))

\* everything the gateway holds for call c
Slot(c) == <<pc[c], name[c], args[c], sent[c], resp[c], out[c]>>

\* a step belongs to one call: it leaves every other call's slot alone and
\* does not change the name or arguments of a call that stays in flight
Isolated ==
  \E c \in CallIds :
    /\ \A d \in CallIds \ {c} : Slot(d)' = Slot(d)
    /\ (pc[c] # "idle" /\ pc'[c] # "idle") =>
         name'[c] = name[c] /\ args'[c] = args[c]

\* C17: with calls in flight at the same time and their requests and
\* responses interleaved in any order, the result of each call is the one
\* its own name, arguments and response determine, equal inputs give equal
\* results, no step of one call touches another call, and the endpoint
\* configuration never changes after construction.
C17_Independent ==
  /\ [](\A c \in Finished : out[c] = <<OwnResult(c)>>)
  /\ [](\A c \in Finished : \A d \in Finished :
          (name[c] = name[d] /\ args[c] = args[d] /\ resp[c] = resp[d])
          => out[c] = out[d])
  /\ [][Isolated]_vars
  /\ [][config' = config]_vars

\* a tag call has returned the remote error of its own response while
\* another call with the same card and tag is still waiting for its response
C17_Witness ==
  \E c \in CallIds : \E d \in CallIds :
    /\ c # d
    /\ IsTagCall(c) /\ IsTagCall(d)
    /\ args[c] = args[d]
    /\ FailedWith(c, {"FizzyApiError"})
    /\ pc[d] = "awaiting"

(***************************************************************************)
(* C18: the request of every operation                                     *)
(***************************************************************************)
Boards == <<"/", "b", "o", "a", "r", "d", "s">>

Cards == <<"/", "c", "a", "r", "d", "s">>

Id(a, f) == <<"/">> \o Get(a, f).s

Route(m, p) == [method |-> m, path |-> p]

\* the method and operation path of each registered operation
RouteOf(toolName, a) ==
  CASE toolName = "fizzy_list_boards" -> Route("GET", Boards)
    [] toolName = "fizzy_get_board" ->
         Route("GET", Boards \o Id(a, "board_id"))
    [] toolName = "fizzy_create_board" -> Route("POST", Boards)
    [] toolName = "fizzy_list_cards" -> Route("GET", Cards)
    [] toolName = "fizzy_get_card" -> Route("GET", Cards \o Id(a, "card_id"))
    [] toolName = "fizzy_create_card" ->
         Route("POST", Boards \o Id(a, "board_id") \o Cards)
    [] toolName = "fizzy_update_card" ->
         Route("PATCH", Cards \o Id(a, "card_id"))
    [] toolName = "fizzy_move_card" ->
         IF Get(a, "column") = Str(S_done)
         THEN Route("POST", Cards \o Id(a, "card_id") \o
                            <<"/", "c", "l", "o", "s", "u", "r", "e">>)
         ELSE IF Get(a, "column") = Str(S_not_now)
         THEN Route("POST", Cards \o Id(a, "card_id") \o
                            <<"/", "n", "o", "t", "_", "n", "o", "w">>)
         ELSE Route("PATCH", Cards \o Id(a, "card_id") \o
                             <<"/", "c", "o", "l", "u", "m", "n">>)
    [] toolName = "fizzy_list_columns" ->
         Route("GET", Boards \o Id(a, "board_id") \o
                      <<"/", "c", "o", "l", "u", "m", "n", "s">>)
    [] toolName = "fizzy_list_comments" ->
         Route("GET", Cards \o Id(a, "card_id") \o
                      <<"/", "c", "o", "m", "m", "e", "n", "t", "s">>)
    [] toolName = "fizzy_add_comment" ->
         Route("POST", Cards \o Id(a, "card_id") \o
                       <<"/", "c", "o", "m", "m", "e", "n", "t", "s">>)
    [] toolName \in {"fizzy_add_tag", "fizzy_remove_tag"} ->
         Route("POST", Cards \o Id(a, "card_id") \o
                       <<"/", "t", "a", "g", "g", "i", "n", "g", "s">>)

\* C18: every valid call issues its request to
\* <baseURL>/<accountScope><operationPath> with the method and path of its
\* operation, the validated identifiers substituted; no request goes to any
\* other method and path.
C18_RouteTable ==
  \A c \in Active :
    /\ PassesAll(name[c], args[c]) => Len(sent[c]) = 1
    /\ \A i \in 1..Len(sent[c]) :
         /\ name[c] \in Registered
         /\ Route(sent[c][i].method, sent[c][i].path) =
              RouteOf(name[c], args[c])
         /\ sent[c][i].url =
              baseUrl \o <<"/">> \o accountId \o RouteOf(name[c], args[c]).path

\* a create-card call for board a1 waits for POST /boards/a1/cards
C18_Witness ==
  \E c \in CallIds :
    /\ pc[c] = "awaiting"
    /\ name[c] = "fizzy_create_card"
    /\ Get(args[c], "board_id") = Str(S_a1)
    /\ sent[c][1].method = "POST"
    /\ sent[c][1].url =
         baseUrl \o <<"/">> \o accountId \o
           <<"/", "b", "o", "a", "r", "d", "s", "/", "a", "1",
             "/", "c", "a", "r", "d", "s">>

(***************************************************************************)
(* C19: undeclared fields                                                  *)
(***************************************************************************)
\* the raw arguments without the fields the operation does not declare
Declared(toolName, a) ==
  IF a.t = "object"
  THEN Obj([k \in DOMAIN a.f \cap Range(Properties(toolName)) |-> a.f[k]])
  ELSE a

Undeclared(toolName, a) ==
  IF a.t = "object" THEN DOMAIN a.f \ Range(Properties(toolName)) ELSE {}

\* the keys of a JSON value, at every level
RECURSIVE KeysOf(_)
KeysOf(v) ==
  IF v.t = "object"
  THEN DOMAIN v.f \cup UNION {KeysOf(v.f[k]) : k \in DOMAIN v.f}
  ELSE {}

BodyKeys(body) == IF IsJson(body) THEN KeysOf(body.json) ELSE {}

\* C19: the validated bag holds declared fields only, each with the raw
\* bag's value, and the request of a call (URL, method and body) is the one
\* the same call issues without its undeclared fields; no undeclared key
\* appears in the body.
C19_UndeclaredDropped ==
  \A c \in Active :
    name[c] \in Registered =>
      /\ name[c] \in Validating =>
           LET v == Validate(name[c], args[c])
           IN  ~v.thrown =>
                 /\ DOMAIN v.val.f \subseteq Range(Properties(name[c]))
                 /\ \A k \in DOMAIN v.val.f : v.val.f[k] = Get(args[c], k)
      /\ \A i \in 1..Len(sent[c]) :
           /\ sent[c][i] = Dispatch(name[c], Declared(name[c], args[c])).val
           /\ BodyKeys(sent[c][i].body) \cap Undeclared(name[c], args[c]) = {}

\* a create-card call whose raw bag carries the undeclared field `extra`
\* waits for its request
C19_Witness ==
  \E c \in CallIds :
    /\ pc[c] = "awaiting"
    /\ name[c] = "fizzy_create_card"
    /\ Get(args[c], "extra") = Str(S_x)
    /\ Present(Get(args[c], "description"))
    /\ Len(sent[c]) = 1
    /\ BodyKeys(sent[c][1].body) = {"card", "title", "description"}

(***************************************************************************)
(* C20: locally built success payloads                                     *)
(***************************************************************************)
LocalOnly == {"fizzy_move_card", "fizzy_add_tag", "fizzy_remove_tag"}

\* the payload the handler builds for a move-card or tag call
LocalPayload(toolName, a) ==
  Obj([success |-> Bool(TRUE),
       message |->
         Str(CASE toolName = "fizzy_move_card" ->
                    <<"Card moved to ">> \o Get(a, "column").s
               [] toolName = "fizzy_add_tag" ->
                    <<"Tag '">> \o Get(a, "tag").s \o <<"' added to card">>
               [] toolName = "fizzy_remove_tag" ->
                    <<"Tag '">> \o Get(a, "tag").s \o
                      <<"' removed from card">>)])

\* the request of call c was answered 2xx and request() returned a value
Got2xx(c) ==
  /\ Responded(c)
  /\ resp[c].status \in 200..299
  /\ resp[c].status = 201 \/ resp[c].body # Unreadable

\* C20: a move-card, add-tag or remove-tag call answered with any 2xx
\* response returns the locally built payload, whatever request() made of
\* the response (parsed JSON, {}, {html: ...} or the 201 object); answered
\* with a non-2xx response it returns an error response.
C20_LocalPayload ==
  \A c \in Finished :
    name[c] \in LocalOnly /\ Responded(c) =>
      /\ Got2xx(c) => SucceededWith(c, LocalPayload(name[c], args[c]))
      /\ resp[c].status \notin 200..299 =>
           /\ IsErrorShape(out[c][1])
           /\ resp[c].body # Unreadable =>
                FailedWith(c, {"FizzyApiError"})

\* move-card to "done" answered 201 with a Location header returned
\* 'Card moved to done', not the 201 object
C20_Witness ==
  \E c \in Finished :
    /\ name[c] = "fizzy_move_card"
    /\ Responded(c)
    /\ resp[c].status = 201
    /\ resp[c].location = Str(Loc_card42)
    /\ SucceededWith(c, Obj([success |-> Bool(TRUE),
                             message |-> Str(<<"Card moved to ", "d", "o",
                                               "n", "e">>)]))

====
